---- MODULE Spec2Model ----
(***************************************************************************)
(* The `analyze` subcommand of orphist (src/src/command/analyze.rs): a     *)
(* word-by-word scan of a byte buffer that logs DATA records for runs of   *)
(* non-zero words (with a type inference) and VOID records for long runs   *)
(* of all-zero words.                                                      *)
(*                                                                         *)
(* Numbers.  Positions, counters and sizes are u64 in the source; in the   *)
(* model they stay far below 2^31 and are plain integers.  The only u64    *)
(* operation that can leave the range is `last - report_offset`, which is  *)
(* modelled by U64Sub.  The i64 aggregates of `infer` reach 2^32 - 1,      *)
(* beyond the integers of the model checker, so an i64 value v is kept as  *)
(* the pair <<hi, lo>> with v = hi * 65536 + lo and 0 <= lo < 65536.       *)
(***************************************************************************)
EXTENDS Integers, Sequences, FiniteSets, TLC

\* ------------------------------------------------------------------ bounds

\* Largest buffer length, in bytes, of a scanned buffer.
MaxLen == 48

\* Largest number of words handed to infer in SpecInfer.
MaxRun == 3

\* --------------------------------------------------------------- constants

\* `if zero_run >= 8`: the shortest zero run reported as VOID, in words.
VoidThreshold == 8

\* `let mut buf = [0u8; 4]`: the size of a word in bytes.
WordSize == 4

\* `#[arg(long, default_value = "5")] report_offset`.
DefaultReportOffset == 5

\* `buf == [0, 0, 0, 0]`
ZeroWord == <<0, 0, 0, 0>>

Endians == {"Big", "Little"}

\* ------------------------------------------------- 64-bit values as pairs

\* 2^16, the weight of the high half of a pair.
Half == 256 * 256

Wide(hi, lo) == <<hi, lo>>

\* a < b on i64 values
Less(a, b) == a[1] < b[1] \/ (a[1] = b[1] /\ a[2] < b[2])

LessEq(a, b) == a = b \/ Less(a, b)

\* i64::is_negative, i64::is_positive
IsNegative(a) == a[1] < 0

IsPositive(a) == a[1] > 0 \/ (a[1] = 0 /\ a[2] > 0)

WideZero == Wide(0, 0)

WideOne == Wide(0, 1)

\* i8::MIN, i8::MAX, i16::MIN, i16::MAX, u8::MIN, u8::MAX, u16::MIN, u16::MAX
\* widened to i64 by `.into()`.
I8Min == Wide(-1, Half - 128)

I8Max == Wide(0, 127)

I16Min == Wide(-1, Half - 32768)

I16Max == Wide(0, 32767)

U8Min == Wide(0, 0)

U8Max == Wide(0, 255)

U16Min == Wide(0, 0)

U16Max == Wide(0, 65535)

\* ------------------------------------------------------------ decodings

\* The two 16-bit halves <<high, low>> of the 32-bit pattern of a word:
\* from_le_bytes takes bytes[0] as the least significant byte, from_be_bytes
\* takes it as the most significant one.
Bits(bytes, e) ==
  IF e = "Big"
    THEN <<bytes[1] * 256 + bytes[2], bytes[3] * 256 + bytes[4]>>
    ELSE <<bytes[4] * 256 + bytes[3], bytes[2] * 256 + bytes[1]>>

\* u32::from_{be,le}_bytes(*bytes).into()
DecodeU32(bytes, e) == Wide(Bits(bytes, e)[1], Bits(bytes, e)[2])

\* i32::from_{be,le}_bytes(*bytes).into(): two's complement, sign-extended.
DecodeI32(bytes, e) ==
  LET b == Bits(bytes, e)
  IN  Wide(IF b[1] >= 32768 THEN b[1] - Half ELSE b[1], b[2])

\* f32::from_{be,le}_bytes(*bytes).is_nan(): exponent bits all ones and a
\* non-zero mantissa (sign 1 bit, exponent 8 bits, mantissa 23 bits).
DecodesNaN(bytes, e) ==
  LET b == Bits(bytes, e)
  IN  /\ (b[1] % 32768) \div 128 = 255
      /\ ((b[1] % 128) # 0 \/ b[2] # 0)

\* String::from_utf8(all).is_ok(): the bytes from index i on are a sequence
\* of well-formed UTF-8 byte sequences (the standard library's validation).
Cont(all, i) == i <= Len(all) /\ all[i] >= 128 /\ all[i] <= 191

In(all, i, lo, hi) == i <= Len(all) /\ all[i] >= lo /\ all[i] <= hi

RECURSIVE Utf8From(_, _)
Utf8From(all, i) ==
  IF i > Len(all) THEN TRUE
  ELSE LET b == all[i] IN
    IF b <= 127 THEN Utf8From(all, i + 1)
    ELSE IF b >= 194 /\ b <= 223
      THEN Cont(all, i + 1) /\ Utf8From(all, i + 2)
    ELSE IF b = 224
      THEN In(all, i + 1, 160, 191) /\ Cont(all, i + 2) /\ Utf8From(all, i + 3)
    ELSE IF (b >= 225 /\ b <= 236) \/ b = 238 \/ b = 239
      THEN Cont(all, i + 1) /\ Cont(all, i + 2) /\ Utf8From(all, i + 3)
    ELSE IF b = 237
      THEN In(all, i + 1, 128, 159) /\ Cont(all, i + 2) /\ Utf8From(all, i + 3)
    ELSE IF b = 240
      THEN In(all, i + 1, 144, 191) /\ Cont(all, i + 2) /\ Cont(all, i + 3)
           /\ Utf8From(all, i + 4)
    ELSE IF b >= 241 /\ b <= 243
      THEN Cont(all, i + 1) /\ Cont(all, i + 2) /\ Cont(all, i + 3)
           /\ Utf8From(all, i + 4)
    ELSE IF b = 244
      THEN In(all, i + 1, 128, 143) /\ Cont(all, i + 2) /\ Cont(all, i + 3)
           /\ Utf8From(all, i + 4)
    ELSE FALSE

Utf8Valid(all) == Utf8From(all, 1)

\* ----------------------------------------------------------------- infer

\* `if number < min { min = number }  if number > max { max = number }`
FoldNumber(acc, number) ==
  [acc EXCEPT !.min = IF Less(number, acc.min) THEN number ELSE acc.min,
              !.max = IF Less(acc.max, number) THEN number ELSE acc.max]

\* A pass whose float block assigns the flag from the current word alone
\* (`float = !number.is_nan()`), so a later word sets it back to true.
FoldWordNoLatch(acc, bytes, e) ==
  LET s == FoldNumber(acc, DecodeI32(bytes, e))
      u == FoldNumber(s, DecodeU32(bytes, e))
  IN  [u EXCEPT !.float = ~DecodesNaN(bytes, e), !.all = u.all \o bytes]

\* One pass without the unsigned block: only the signed decoding is folded.
FoldWordSignedOnly(acc, bytes, e) ==
  LET s == FoldNumber(acc, DecodeI32(bytes, e))
  IN  [s EXCEPT !.float = IF DecodesNaN(bytes, e) THEN FALSE ELSE s.float,
                !.all = s.all \o bytes]

\* One pass of `for bytes in data`: the signed block, the unsigned block,
\* the float block (min_f and max_f are computed and never read, so only
\* the NaN flag is kept), then the bytes appended to `all`.
FoldWord(acc, bytes, e) ==
  LET s == FoldNumber(acc, DecodeI32(bytes, e))
      u == FoldNumber(s, DecodeU32(bytes, e))
  IN  [u EXCEPT !.float = IF DecodesNaN(bytes, e) THEN FALSE ELSE u.float,
                !.all = u.all \o bytes]

\* A start from the far ends of the 32-bit ranges (min = u32::MAX,
\* max = i32::MIN), so that the first word sets both.
InferStartFromLimits ==
  [min |-> Wide(65535, 65535), max |-> Wide(-32768, 0), float |-> TRUE,
   all |-> <<>>]

\* The state of infer before its loop: min = max = 0, float = true, all = [].
InferStart == [min |-> WideZero, max |-> WideZero, float |-> TRUE, all |-> <<>>]

RECURSIVE InferLoop(_, _, _, _)
InferLoop(acc, d, i, e) ==
  IF i > Len(d) THEN acc ELSE InferLoop(FoldWord(acc, d[i], e), d, i + 1, e)

\* A Bool rule that accepts only min = max = 0 (a plausible slip: booleans
\* that are all false).
BoolRuleOnlyZero(min, max) == min = WideZero /\ max = WideZero

\* `(min == 0 || min == 1) && (max == 0 || max == 1)`
BoolRule(min, max) ==
  (min = WideZero \/ min = WideOne) /\ (max = WideZero \/ max = WideOne)

\* The chain with the unsigned family tried before the signed one.
AssumedTypeUnsignedFirst(min, max) ==
  IF BoolRule(min, max) THEN "Bool"
  ELSE IF IsPositive(max) THEN
    IF LessEq(U8Min, min) /\ LessEq(max, U8Max) THEN "U8"
    ELSE IF LessEq(U16Min, min) /\ LessEq(max, U16Max) THEN "U16"
    ELSE "U32"
  ELSE IF IsNegative(min) \/ IsNegative(max) THEN
    IF LessEq(I8Min, min) /\ LessEq(max, I8Max) THEN "I8"
    ELSE IF LessEq(I16Min, min) /\ LessEq(max, I16Max) THEN "I16"
    ELSE "I32"
  ELSE "Zero"

\* The `let assumed_type = if ... else if ...` chain.
AssumedTypeOf(min, max) ==
  IF BoolRule(min, max) THEN "Bool"
  ELSE IF IsNegative(min) \/ IsNegative(max) THEN
    IF LessEq(I8Min, min) /\ LessEq(max, I8Max) THEN "I8"
    ELSE IF LessEq(I16Min, min) /\ LessEq(max, I16Max) THEN "I16"
    ELSE "I32"
  ELSE IF IsPositive(max) THEN
    IF LessEq(U8Min, min) /\ LessEq(max, U8Max) THEN "U8"
    ELSE IF LessEq(U16Min, min) /\ LessEq(max, U16Max) THEN "U16"
    ELSE "U32"
  ELSE "Zero"

\* fn infer(data, endian) -> (AssumedType, i64, i64, bool, bool)
infer(d, e) ==
  LET acc == InferLoop(InferStart, d, 1, e)
  IN  [probably |-> AssumedTypeOf(acc.min, acc.max),
       min |-> acc.min,
       max |-> acc.max,
       maybe_float |-> acc.float,
       maybe_string |-> Utf8Valid(acc.all)]

\* ------------------------------------------------------- Analyze::execute

VARIABLES
  endian,         \* Analyze.endian
  report_offset,  \* Analyze.report_offset
  start_at,       \* Analyze.start_at
  overflow_checks,\* the build: TRUE with overflow checks (debug profile),
                  \* FALSE without them (release profile)
  len,            \* length in bytes of model.data.moc, the scanned buffer
  words,          \* the words of the buffer read so far, from start_at on
  pos,            \* the cursor position of moc3
  data_run, data_start, zero_run, zero_start, data, last,
  log,            \* the DATA and VOID records logged so far
  pc,             \* "seek", "loop", "Ok" (returned Ok(())), "Err", "panic";
                  \* "infer" and "inferred" in SpecInfer
  inferred        \* SpecInfer: the value returned by infer

vars == <<endian, report_offset, start_at, overflow_checks, len, words, pos,
          data_run, data_start, zero_run, zero_start, data, last, log, pc,
          inferred>>

\* The word values a buffer is made of in the scan.
Words == {ZeroWord, <<1, 0, 0, 0>>}

\* The offsets the scan is started at, the second one unaligned.
StartOffsets == {0, 3}

\* The report offsets: the default, and one above the first record's end.
ReportOffsets == {DefaultReportOffset, 16}

NoInference == [probably |-> "none", min |-> WideZero, max |-> WideZero,
                maybe_float |-> FALSE, maybe_string |-> FALSE]

NotInferred == [probably |-> "not called", min |-> WideZero, max |-> WideZero,
                maybe_float |-> FALSE, maybe_string |-> FALSE]

\* `last - report_offset` on u64.  With overflow checks (a debug build) a
\* negative difference panics; without them (a release build) it wraps to
\* 2^64 + (a - b).  The value is kept as <<w, d>>, standing for w * 2^64 + d.
U64SubPanics(a, b, checks) == checks /\ a < b

U64Sub(a, b) == IF a >= b THEN <<0, a - b>> ELSE <<1, a - b>>

\* The scanner's locals as one value, for the operators below.
Locals ==
  [data_run |-> data_run, data_start |-> data_start, zero_run |-> zero_run,
   zero_start |-> zero_start, data |-> data, last |-> last, log |-> log,
   panicked |-> FALSE]

\* The locals after `moc3.seek(SeekFrom::Start(start_at))?` and the `let mut`
\* lines: three stream positions, two counters at 0, an empty vector.
LocalsAt(p) ==
  [data_run |-> 0, data_start |-> p, zero_run |-> 0, zero_start |-> p,
   data |-> <<>>, last |-> p, log |-> <<>>, panicked |-> FALSE]

\* info!("DATA {data_start} {last - report_offset} size={data_run * 4} ...").
\* The field `last` is the raw end position, which the line does not print.
\* The log macros evaluate their arguments when their level is enabled; the
\* model takes both levels (info for DATA, debug for VOID) as enabled, so
\* `log` holds every record the scan can write.
DataRecord(s, ro, e) ==
  [kind |-> "DATA", start |-> s.data_start, end |-> U64Sub(s.last, ro),
   last |-> s.last, size |-> s.data_run * 4, inference |-> infer(s.data, e)]

\* debug!("VOID {zero_start} {last - report_offset} size={zero_run * 4}")
VoidRecord(s, ro) ==
  [kind |-> "VOID", start |-> s.zero_start, end |-> U64Sub(s.last, ro),
   last |-> s.last, size |-> s.zero_run * 4, inference |-> NoInference]

\* The zero branch flushing the open data run at the first zero word after
\* it, not at the second.
ZeroBranchFlushAtFirstZero(s, ro, e, checks) ==
  LET z == IF s.zero_run = 0 THEN [s EXCEPT !.zero_start = s.last] ELSE s
  IN  IF s.data_run > 0
        THEN IF U64SubPanics(s.last, ro, checks)
               THEN [s EXCEPT !.panicked = TRUE]
               ELSE [z EXCEPT !.log = Append(s.log, DataRecord(s, ro, e)),
                              !.data_run = 0, !.zero_run = z.zero_run + 1]
        ELSE [z EXCEPT !.zero_run = z.zero_run + 1]

\* The branch `if buf == [0, 0, 0, 0]`.
ZeroBranch(s, ro, e, checks) ==
  IF s.zero_run = 0
    THEN [s EXCEPT !.zero_start = s.last, !.zero_run = 1]
  ELSE IF s.data_run > 0
    THEN IF U64SubPanics(s.last, ro, checks)
           THEN [s EXCEPT !.panicked = TRUE]
           ELSE [s EXCEPT !.log = Append(s.log, DataRecord(s, ro, e)),
                          !.data_run = 0, !.zero_run = s.zero_run + 1]
  ELSE [s EXCEPT !.data_run = 0, !.zero_run = s.zero_run + 1]

\* The branch for a non-zero word with `zero_run = 0` left out where the
\* VOID record is logged.
DataBranchKeepZeroRun(s, w, ro, checks) ==
  IF s.data_run = 0
    THEN [s EXCEPT !.data_start = s.last, !.data = <<w>>, !.data_run = 1]
  ELSE IF s.zero_run >= VoidThreshold
    THEN IF U64SubPanics(s.last, ro, checks)
           THEN [s EXCEPT !.panicked = TRUE]
           ELSE [s EXCEPT !.log = Append(s.log, VoidRecord(s, ro)),
                          !.data = Append(s.data, w),
                          !.data_run = s.data_run + 1]
  ELSE [s EXCEPT !.zero_run = 0, !.data = Append(s.data, w),
                 !.data_run = s.data_run + 1]

\* The branch for a non-zero word without `data.clear()`: a new run is
\* pushed after the words of the run before it.
DataBranchNoClear(s, w, ro, checks) ==
  IF s.data_run = 0
    THEN [s EXCEPT !.data_start = s.last, !.data = Append(s.data, w),
                   !.data_run = 1]
  ELSE IF s.zero_run >= VoidThreshold
    THEN IF U64SubPanics(s.last, ro, checks)
           THEN [s EXCEPT !.panicked = TRUE]
           ELSE [s EXCEPT !.log = Append(s.log, VoidRecord(s, ro)),
                          !.zero_run = 0, !.data = Append(s.data, w),
                          !.data_run = s.data_run + 1]
  ELSE [s EXCEPT !.zero_run = 0, !.data = Append(s.data, w),
                 !.data_run = s.data_run + 1]

\* The branch for a non-zero word.
DataBranch(s, w, ro, checks) ==
  IF s.data_run = 0
    THEN [s EXCEPT !.data_start = s.last, !.data = <<w>>, !.data_run = 1]
  ELSE IF s.zero_run >= VoidThreshold
    THEN IF U64SubPanics(s.last, ro, checks)
           THEN [s EXCEPT !.panicked = TRUE]
           ELSE [s EXCEPT !.log = Append(s.log, VoidRecord(s, ro)),
                          !.zero_run = 0, !.data = Append(s.data, w),
                          !.data_run = s.data_run + 1]
  ELSE [s EXCEPT !.zero_run = 0, !.data = Append(s.data, w),
                 !.data_run = s.data_run + 1]

\* One pass of the loop body on the word w just read, the cursor then being
\* at p: the branch, then `last = moc3.stream_position()?`.
Iteration(s, w, p, ro, e, checks) ==
  LET t == IF w = ZeroWord THEN ZeroBranch(s, ro, e, checks)
                           ELSE DataBranch(s, w, ro, checks)
  IN  IF t.panicked THEN t ELSE [t EXCEPT !.last = p]

\* `moc3.read_exact(&mut buf)` is Ok: 4 bytes remain from the cursor on.
ReadExactOk(p, n) == p + WordSize <= n

\* The end of the loop flushing an open zero run that met the threshold.
EndOfStreamFlushVoid(s, ro) ==
  IF s.zero_run >= VoidThreshold
    THEN [s EXCEPT !.log = Append(s.log, VoidRecord(s, ro))]
    ELSE s

\* The loop's exit: read_exact returned Err, and `Ok(())` follows at once;
\* nothing is flushed.
EndOfStream(s, ro) == s

\* A seek that refuses a target beyond the length n of the buffer.
SeekStartChecked(n, target) == [ok |-> target <= n, pos |-> target]

\* Cursor::seek(SeekFrom::Start(target)): the position becomes target,
\* whatever the length n of the buffer, and the result is Ok(target).
SeekStart(n, target) == [ok |-> TRUE, pos |-> target]

\* The whole scan of a buffer that holds exactly the words ws from `start`
\* on: the locals when the loop is left (by exhaustion or by a panic).
RECURSIVE ScanLoop(_, _, _, _, _, _, _)
ScanLoop(s, ws, i, p, ro, e, checks) ==
  IF i > Len(ws) \/ s.panicked THEN s
  ELSE ScanLoop(Iteration(s, ws[i], p + WordSize, ro, e, checks),
                ws, i + 1, p + WordSize, ro, e, checks)

Scan(ws, start, ro, e, checks) ==
  LET s == ScanLoop(LocalsAt(start), ws, 1, start, ro, e, checks)
  IN  IF s.panicked THEN s ELSE EndOfStream(s, ro)

SetLocals(s) ==
  /\ data_run' = s.data_run
  /\ data_start' = s.data_start
  /\ zero_run' = s.zero_run
  /\ zero_start' = s.zero_start
  /\ data' = s.data
  /\ last' = s.last
  /\ log' = s.log

Init ==
  /\ endian \in Endians
  /\ report_offset \in ReportOffsets
  /\ start_at \in StartOffsets
  /\ overflow_checks \in BOOLEAN
  /\ len \in 0..MaxLen
  /\ words = <<>>
  /\ pos = 0
  /\ data_run = 0
  /\ data_start = 0
  /\ zero_run = 0
  /\ zero_start = 0
  /\ data = <<>>
  /\ last = 0
  /\ log = <<>>
  /\ pc = "seek"
  /\ inferred = NotInferred

\* Lines 47-57: the cursor, the seek (`?` returns its error), the locals.
Seek ==
  /\ pc = "seek"
  /\ LET r == SeekStart(len, start_at)
     IN  IF r.ok
           THEN /\ pos' = r.pos
                /\ SetLocals(LocalsAt(r.pos))
                /\ pc' = "loop"
           ELSE /\ pc' = "Err"
                /\ UNCHANGED <<pos, data_run, data_start, zero_run,
                               zero_start, data, last, log>>
  /\ UNCHANGED <<endian, report_offset, start_at, overflow_checks, len, words,
                 inferred>>

\* Lines 59-91: read_exact succeeds on some word w and the body runs.
ReadWord ==
  /\ pc = "loop"
  /\ ReadExactOk(pos, len)
  /\ \E w \in Words :
       LET s == Iteration(Locals, w, pos + WordSize, report_offset, endian,
                          overflow_checks)
       IN  /\ words' = Append(words, w)
           /\ pos' = pos + WordSize
           /\ SetLocals(s)
           /\ pc' = IF s.panicked THEN "panic" ELSE "loop"
  /\ UNCHANGED <<endian, report_offset, start_at, overflow_checks, len,
                 inferred>>

\* Lines 59 and 93: read_exact fails and execute returns Ok(()).
Exhausted ==
  /\ pc = "loop"
  /\ ~ReadExactOk(pos, len)
  /\ SetLocals(EndOfStream(Locals, report_offset))
  /\ pc' = "Ok"
  /\ UNCHANGED <<endian, report_offset, start_at, overflow_checks, len, words,
                 pos, inferred>>

Next == Seek \/ ReadWord \/ Exhausted

Spec == Init /\ [][Next]_vars

\* ------------------------------------------------- infer on its own inputs

\* The words infer is applied to: 0, 1, 2, 256, 65536 and 2^24 in one byte
\* order or the other, -1 (a NaN pattern), -128, an infinity and a NaN
\* (little-endian), and the text "Hell".
InferWords ==
  { ZeroWord, <<1, 0, 0, 0>>, <<0, 0, 0, 1>>, <<2, 0, 0, 0>>, <<0, 1, 0, 0>>,
    <<0, 0, 1, 0>>, <<255, 255, 255, 255>>, <<128, 255, 255, 255>>,
    <<0, 0, 128, 127>>, <<1, 0, 128, 127>>, <<72, 101, 108, 108>> }

InitInfer ==
  /\ endian \in Endians
  /\ report_offset = DefaultReportOffset
  /\ start_at = 0
  /\ overflow_checks = TRUE
  /\ len = 0
  /\ words = <<>>
  /\ pos = 0
  /\ data_run = 0
  /\ data_start = 0
  /\ zero_run = 0
  /\ zero_start = 0
  /\ data = <<>>
  /\ last = 0
  /\ log = <<>>
  /\ pc = "infer"
  /\ inferred = NotInferred

\* The caller builds the slice `data`, one word at a time.
PushWord ==
  /\ pc = "infer"
  /\ Len(data) < MaxRun
  /\ \E w \in InferWords : data' = Append(data, w)
  /\ UNCHANGED <<endian, report_offset, start_at, overflow_checks, len, words,
                 pos, data_run, data_start, zero_run, zero_start, last, log,
                 pc, inferred>>

\* infer(&data, endian)
CallInfer ==
  /\ pc = "infer"
  /\ inferred' = infer(data, endian)
  /\ pc' = "inferred"
  /\ UNCHANGED <<endian, report_offset, start_at, overflow_checks, len, words,
                 pos, data_run, data_start, zero_run, zero_start, data, last,
                 log>>

NextInfer == PushWord \/ CallInfer

SpecInfer == InitInfer /\ [][NextInfer]_vars

\* ---------------------------------------------------------------- claims

\* What the claims speak of, in terms of the buffer read and the log.
Finished == pc \in {"Ok", "Err", "panic"}

\* Position of the i-th word read (i from 1).
PosOf(i) == start_at + WordSize * (i - 1)

RECURSIVE TrailingZeros(_)
TrailingZeros(ws) ==
  IF ws = <<>> \/ ws[Len(ws)] # ZeroWord THEN 0
  ELSE 1 + TrailingZeros(SubSeq(ws, 1, Len(ws) - 1))

RECURSIVE SumWordCounts(_)
SumWordCounts(l) ==
  IF l = <<>> THEN 0 ELSE (l[1].size \div WordSize) + SumWordCounts(Tail(l))

\* words[i..j] is a maximal run of zero words followed by a non-zero word.
ZeroGap(i, j) ==
  /\ i <= j
  /\ j < Len(words)
  /\ \A k \in i..j : words[k] = ZeroWord
  /\ (i = 1 \/ words[i - 1] # ZeroWord)
  /\ words[j + 1] # ZeroWord

\* A record without its displayed end.
Shown(r) == [kind |-> r.kind, start |-> r.start, last |-> r.last,
             size |-> r.size, inference |-> r.inference]

ShownLog(l) == [i \in DOMAIN l |-> Shown(l[i])]

\* C1 (as claimed): when the stream is exhausted with a data run in progress
\* (data_run > 0), that run has been flushed: the last record of the log is
\* the DATA record of the run, starting at data_start with 4 * data_run bytes.
C1_FinalDataRunFlushed ==
  (pc = "Ok" /\ data_run > 0) =>
    /\ log # <<>>
    /\ log[Len(log)].kind = "DATA"
    /\ log[Len(log)].start = data_start
    /\ log[Len(log)].size = WordSize * data_run

\* C2 (as claimed): at the end of a scan, a maximal run of zero words that is
\* followed by a non-zero word has a VOID record if and only if it has at
\* least 8 words, and every VOID record is the record of such a run of at
\* least 8 words (a shorter gap contributes to none).
C2_VoidIffLongZeroGap ==
  pc = "Ok" =>
    /\ \A i, j \in DOMAIN words :
         ZeroGap(i, j) =>
           ((j - i + 1 >= VoidThreshold) <=>
              \E k \in DOMAIN log :
                /\ log[k].kind = "VOID"
                /\ log[k].start = PosOf(i)
                /\ log[k].size = WordSize * (j - i + 1))
    /\ \A k \in DOMAIN log :
         log[k].kind = "VOID" =>
           \E i, j \in DOMAIN words :
             /\ ZeroGap(i, j)
             /\ j - i + 1 >= VoidThreshold
             /\ log[k].start = PosOf(i)
             /\ log[k].size = WordSize * (j - i + 1)

\* C3 (as claimed): every record covers [start, last): its raw end position
\* is start + size, and size is 4 * word_count with word_count >= 1.
C3_RecordEndIsStartPlusSize ==
  \A k \in DOMAIN log :
    /\ log[k].last = log[k].start + log[k].size
    /\ log[k].size >= WordSize
    /\ log[k].size % WordSize = 0

\* C4 (as claimed): no two consecutive records of the log have the same kind.
C4_RecordsAlternate ==
  \A k \in DOMAIN log : k < Len(log) => log[k].kind # log[k + 1].kind

\* C5 (as claimed): when the scan of a buffer with start_at <= len ends, the
\* word counts of the records plus the zero words the stream ends with add
\* up to floor((len - start_at) / 4).
C5_Coverage ==
  (pc = "Ok" /\ start_at <= len) =>
    SumWordCounts(log) + TrailingZeros(words) = (len - start_at) \div WordSize

C7_ReadsWholeWordsAndReturnsOk ==
  (Finished /\ start_at <= len) =>
    /\ pc = "Ok"
    /\ Len(words) = (len - start_at) \div WordSize
    /\ last = start_at + WordSize * Len(words)
    /\ log = Scan(words, start_at, report_offset, endian, overflow_checks).log

\* C8 (as claimed): the scan ends normally under every report offset, and
\* its records are those of the scan of the same buffer under any other
\* report offset but for the displayed end, which is last - report_offset.
C8_ReportOffsetIsDisplayOnly ==
  Finished =>
    /\ pc = "Ok"
    /\ \A ro \in ReportOffsets \cup {0} :
         ShownLog(log) =
           ShownLog(Scan(words, start_at, ro, endian, overflow_checks).log)
    /\ \A k \in DOMAIN log : log[k].end = <<0, log[k].last - report_offset>>

\* C9: when the stream ends with zero words, no VOID record reaches into
\* that final zero run, however long it is: every VOID record ends at or
\* before the first word of the run.
C9_TrailingZeroRunNotReported ==
  (pc = "Ok" /\ TrailingZeros(words) > 0) =>
    \A k \in DOMAIN log :
      log[k].kind = "VOID" =>
        log[k].last <= PosOf(Len(words) - TrailingZeros(words) + 1)

C9_Witness ==
  /\ pc = "Ok"
  /\ TrailingZeros(words) >= VoidThreshold
  /\ zero_run >= VoidThreshold

\* Every word of d decodes to 0 or 1, as i32 and as u32.
AllZeroOrOne(d, e) ==
  \A i \in DOMAIN d :
    /\ DecodeI32(d[i], e) \in {WideZero, WideOne}
    /\ DecodeU32(d[i], e) \in {WideZero, WideOne}

\* C10: infer on a non-empty sequence of words that all decode to 0 or 1
\* (signed and unsigned, under the endianness given) returns Bool.
C10_BoolPriority ==
  (pc = "inferred" /\ data # <<>> /\ AllZeroOrOne(data, endian)) =>
    inferred.probably = "Bool"

C10_Witness ==
  /\ pc = "inferred"
  /\ Len(data) >= 2
  /\ AllZeroOrOne(data, endian)
  /\ \E i \in DOMAIN data : DecodeU32(data[i], endian) = WideOne
  /\ \E i \in DOMAIN data : DecodeU32(data[i], endian) = WideZero
  /\ inferred.probably = "Bool"

\* The value of the pair a lies in lo..hi, both given as plain integers
\* with lo >= -65536 and hi < 65536.
Within(a, lo, hi) ==
  \/ a[1] = 0 /\ a[2] >= lo /\ a[2] <= hi
  \/ a[1] = -1 /\ a[2] - Half >= lo /\ a[2] - Half <= hi

\* The type the claim C11 names for (min, max) when the Bool rule does not
\* apply: the signed family with min or max negative, otherwise the
\* unsigned family with max positive.
ClaimedWidth(min, max) ==
  IF min[1] < 0 \/ max[1] < 0 THEN
    IF Within(min, -128, 127) /\ Within(max, -128, 127) THEN "I8"
    ELSE IF Within(min, -32768, 32767) /\ Within(max, -32768, 32767)
      THEN "I16"
    ELSE "I32"
  ELSE IF max # <<0, 0>> THEN
    IF Within(max, 0, 255) THEN "U8"
    ELSE IF Within(max, 0, 65535) THEN "U16"
    ELSE "U32"
  ELSE "Zero"

\* Values of min and of max around the limits of the families, for the arms
\* of the selection that no word sequence makes infer take.
SampleMins ==
  {<<0, 0>>, <<-1, 65535>>, <<-1, 65408>>, <<-1, 65407>>, <<-1, 32768>>,
   <<-1, 32767>>, <<-32768, 0>>}

SampleMaxs ==
  {<<0, 0>>, <<0, 1>>, <<0, 127>>, <<0, 128>>, <<0, 255>>, <<0, 256>>,
   <<0, 32767>>, <<0, 32768>>, <<0, 65535>>, <<1, 0>>, <<65535, 65535>>}

\* C11: when infer does not return Bool, it returns by first match: with min
\* or max negative, I8 if [min, max] lies in -128..127, else I16 if it lies
\* in -32768..32767, else I32; otherwise, with max positive, U8 if max <= 255,
\* else U16 if max <= 65535, else U32.  The selection does the same on the
\* sample values of min and max.  The single word FF FF FF FF gives min = -1,
\* max = 4294967295 and I32.
C11_WidthByFirstMatch ==
  pc = "inferred" =>
    /\ inferred.probably # "Bool" =>
         inferred.probably = ClaimedWidth(inferred.min, inferred.max)
    /\ \A mn \in SampleMins, mx \in SampleMaxs :
         AssumedTypeOf(mn, mx) # "Bool" =>
           AssumedTypeOf(mn, mx) = ClaimedWidth(mn, mx)
    /\ data = <<<<255, 255, 255, 255>>>> =>
         /\ inferred.min = <<-1, 65535>>
         /\ inferred.max = <<65535, 65535>>
         /\ inferred.probably = "I32"

C11_Witness ==
  /\ pc = "inferred"
  /\ data = <<<<255, 255, 255, 255>>>>
  /\ inferred.probably = "I32"

\* The word is an IEEE-754 single-precision NaN under the endianness e, read
\* off its bytes: the exponent is the low 7 bits of the most significant
\* byte and the top bit of the next one, the mantissa is the rest.
NaNPattern(w, e) ==
  LET b == IF e = "Big" THEN w ELSE <<w[4], w[3], w[2], w[1]>>
  IN  /\ b[1] % 128 = 127
      /\ b[2] >= 128
      /\ (b[2] > 128 \/ b[3] > 0 \/ b[4] > 0)

Reversed(d) == [i \in DOMAIN d |-> d[Len(d) + 1 - i]]

\* C12: the float-plausible flag returned by infer is false if and only if
\* some word of the sequence is a NaN pattern under the endianness given,
\* wherever in the sequence it stands: the same words in reverse order give
\* the same flag.
C12_FloatFlagIffNoNaN ==
  pc = "inferred" =>
    /\ inferred.maybe_float =
         ~(\E i \in DOMAIN data : NaNPattern(data[i], endian))
    /\ infer(Reversed(data), endian).maybe_float = inferred.maybe_float

\* A NaN word followed by a word that is not one: the flag stays false.
C12_Witness ==
  /\ pc = "inferred"
  /\ Len(data) >= 2
  /\ NaNPattern(data[1], endian)
  /\ ~NaNPattern(data[Len(data)], endian)
  /\ inferred.maybe_float = FALSE

\* Index in `words` of the word at position p.
IndexOf(p) == (p - start_at) \div WordSize + 1

\* C13 (as claimed): while the scan runs, a zero word just read has ended
\* the data run (data_run = 0); a non-zero word just read after a zero word,
\* or as the first word, has started a run at its own position with a buffer
\* holding that word alone; and every DATA record covers size / 4 words in a
\* row from its start, none of them zero.
C13_DataRunsContiguous ==
  /\ (pc = "loop" /\ words # <<>>) =>
       LET n == Len(words) IN
         /\ words[n] = ZeroWord => data_run = 0
         /\ (words[n] # ZeroWord /\ (n = 1 \/ words[n - 1] = ZeroWord)) =>
              /\ data_start = PosOf(n)
              /\ data = <<words[n]>>
              /\ data_run = 1
  /\ \A k \in DOMAIN log :
       log[k].kind = "DATA" =>
         \A i \in IndexOf(log[k].start) ..
                  (IndexOf(log[k].start) + log[k].size \div WordSize - 1) :
           i \in DOMAIN words /\ words[i] # ZeroWord

\* A DATA record has just been appended to the log.
DataLogged ==
  /\ Len(log') = Len(log) + 1
  /\ log'[Len(log')].kind = "DATA"

\* C14: whenever data_run > 0 the data vector holds exactly data_run words,
\* none of them zero, and data_start is the position of the first of them in
\* the buffer; and whenever a DATA record is logged, infer was given the
\* data vector, which is not empty, and the size logged is 4 times its length.
C14_DataBufferMatchesRun ==
  /\ [](data_run > 0 =>
          /\ Len(data) = data_run
          /\ \A i \in DOMAIN data : data[i] # ZeroWord
          /\ IndexOf(data_start) \in DOMAIN words
          /\ PosOf(IndexOf(data_start)) = data_start
          /\ words[IndexOf(data_start)] = data[1])
  /\ [][DataLogged =>
          /\ data # <<>>
          /\ log'[Len(log')].size = WordSize * Len(data)
          /\ log'[Len(log')].inference = infer(data, endian)]_vars

\* A second data run, of two words, is open after a first one was logged.
C14_Witness ==
  /\ pc = "loop"
  /\ data_run = 2
  /\ Len(data) = 2
  /\ \E k \in DOMAIN log : log[k].kind = "DATA"

\* The least of 0 and the signed decodings of the words of d, and the
\* greatest of 0 and their unsigned decodings.
RECURSIVE LeastSigned(_, _)
LeastSigned(d, e) ==
  IF d = <<>> THEN <<0, 0>>
  ELSE LET rest == LeastSigned(Tail(d), e)
           x == DecodeI32(Head(d), e)
       IN  IF Less(x, rest) THEN x ELSE rest

RECURSIVE GreatestUnsigned(_, _)
GreatestUnsigned(d, e) ==
  IF d = <<>> THEN <<0, 0>>
  ELSE LET rest == GreatestUnsigned(Tail(d), e)
           x == DecodeU32(Head(d), e)
       IN  IF Less(rest, x) THEN x ELSE rest

\* C15: the min returned by infer is the least of 0 and the signed decodings
\* of the words, the max is the greatest of 0 and their unsigned decodings;
\* so min <= 0 <= max, whatever the words.
C15_SharedMinMax ==
  pc = "inferred" =>
    /\ inferred.min = LeastSigned(data, endian)
    /\ inferred.max = GreatestUnsigned(data, endian)
    /\ LessEq(inferred.min, <<0, 0>>)
    /\ LessEq(<<0, 0>>, inferred.max)

\* Every word is greater than 1 in both decodings, and min is 0 all the same.
C15_Witness ==
  /\ pc = "inferred"
  /\ Len(data) >= 2
  /\ \A i \in DOMAIN data :
       /\ Less(<<0, 1>>, DecodeI32(data[i], endian))
       /\ Less(<<0, 1>>, DecodeU32(data[i], endian))
  /\ inferred.min = <<0, 0>>
  /\ Less(<<0, 1>>, inferred.max)

NoZeroWord(d) == \A i \in DOMAIN d : d[i] # ZeroWord

\* C17: for a non-empty buffer of non-zero words the assumed type is one of
\* Bool, I32, U8, U16, U32 (never Zero, I8 or I16), and it is Bool exactly
\* when every word decodes to 1.
C17_FlushedRunTypes ==
  pc = "inferred" /\ data # <<>> /\ NoZeroWord(data) =>
    /\ inferred.probably \in {"Bool", "I32", "U8", "U16", "U32"}
    /\ inferred.probably = "Bool" <=>
         \A i \in DOMAIN data : DecodeU32(data[i], endian) = <<0, 1>>

\* The one word 0xFFFFFF80, -128 as signed, is reported as I32.
C17_Witness ==
  /\ pc = "inferred"
  /\ endian = "Little"
  /\ data = << <<128, 255, 255, 255>> >>
  /\ DecodeI32(data[1], endian) = <<-1, Half - 128>>
  /\ inferred.probably = "I32"

\* C18: the raw end position of every record, and `last` when the
\* subtraction panics, is at least start_at + 8; so with
\* report_offset <= start_at + 8 the subtraction neither panics nor wraps.
C18_EndNeverUnderflows ==
  /\ \A k \in DOMAIN log : log[k].last >= start_at + 2 * WordSize
  /\ pc = "panic" => last >= start_at + 2 * WordSize
  /\ report_offset <= start_at + 2 * WordSize =>
       /\ pc # "panic"
       /\ \A k \in DOMAIN log : log[k].end[1] = 0

\* The first record is logged with last = start_at + 8 under the default
\* report offset.
C18_Witness ==
  /\ log # <<>>
  /\ report_offset = DefaultReportOffset
  /\ start_at = 3
  /\ log[1].last = start_at + 2 * WordSize
  /\ log[1].end = <<0, start_at + 2 * WordSize - report_offset>>

====
